---- MODULE Spec2Model ----
(***************************************************************************)
(* todo-tui: the interaction loop of src/src/ui.rs (run_app) as a state    *)
(* machine.  One action is one iteration of the loop: draw the frame, read *)
(* one event, run the match arm of the current input mode.                 *)
(*                                                                         *)
(* Strings are sequences of one-character strings.  Rust's Option<T> is    *)
(* the tuple <<"None">> or <<"Some", v>>.  Vec indices are 0-based in the  *)
(* source and 1-based here: app.input[0] is input[1], app.list.items[i]    *)
(* is items[i + 1]; the selection keeps the source's 0-based value.        *)
(***************************************************************************)
EXTENDS Integers, Sequences, FiniteSets, TLC

VARIABLES
    popup,       \* app.popup
    input_mode,  \* app.input_mode
    input,       \* app.input: the name buffer and the details buffer
    items,       \* app.list.items
    selected,    \* app.list.state.selected()
    key,         \* the key code read in the last iteration, NoKey if none
    arm,         \* the arm of `match app.input_mode` the last iteration took
    res,         \* "none" before run_app is called, "running", or how
                 \* run_app was left: "Ok", "Err", "panic"
    pc,          \* the statement of start_ui / main to execute next
    raw_mode,    \* the terminal is in raw mode
    alt_screen,  \* the alternate screen (and mouse capture) is active
    cursor_shown, \* terminal.show_cursor() has run
    ret,         \* the result start_ui returned, "none" before it returns
    printed,     \* the diagnostic written to the terminal, "none" if none
    frames       \* the frames ui() has drawn, where they are recorded

app == <<popup, input_mode, input, items, selected>>
term == <<raw_mode, alt_screen, cursor_shown>>
\* what the iterations of the loop leave alone
outer == <<pc, raw_mode, alt_screen, cursor_shown, ret, printed, frames>>
vars == <<popup, input_mode, input, items, selected, key, arm, res,
          pc, raw_mode, alt_screen, cursor_shown, ret, printed, frames>>

\* ------------------------------------------------------------------ bounds
\* most tasks the list holds (the commit arm is disabled beyond it)
MaxTasks == 2
\* most characters held by the two draft buffers and all tasks together
MaxChars == 3

\* ------------------------------------------------------------ data model
None == <<"None">>
Some(v) == <<"Some", v>>
IsSome(o) == o[1] = "Some"
Unwrap(o) == o[2]

\* stand-in for usize::MAX, the value items.len() - 1 wraps to on an empty
\* list in a build without overflow checks (2^64 - 1 is beyond TLC's
\* integers; every index the model reaches is below it)
UsizeMax == 2147483647

\* a failed overflow check or index check
Panic == <<"Panic">>

\* characters the keyboard delivers as KeyCode::Char
Chars == {"q", "n", "j", "k", "d", "a", "b", "c"}

Char(c) == <<"Char", c>>
Enter == <<"Enter">>
Esc == <<"Esc">>
Backspace == <<"Backspace">>
\* a key outside the vocabulary of both modes
Tab == <<"Tab">>
\* no event has been read yet
NoKey == <<"NoKey">>

\* the texts the user types into the name buffer and into the details
\* buffer: a buffer always holds a prefix of one of them (Backspace keeps
\* it one); together they hold every command letter of Normal mode
Words == { <<"a", "b", "c">>, <<"q", "n", "j">> }
DetailWords == { <<"k", "d">> }

IsPrefix(s, w) == Len(s) <= Len(w) /\ SubSeq(w, 1, Len(s)) = s

Typable(s) == \E w \in Words : IsPrefix(s, w)
TypableDetails(s) == \E w \in DetailWords : IsPrefix(s, w)

\* String::new()
EmptyString == <<>>

\* String::pop: drops the last character, nothing on the empty string
Pop(s) == IF Len(s) = 0 THEN s ELSE SubSeq(s, 1, Len(s) - 1)

\* String::push
Push(s, c) == Append(s, c)

\* Task::new with the completion flag set
Task_new_done(msg, details) == [done |-> TRUE, msg |-> msg, details |-> details]

Task_new(msg, details) == [done |-> FALSE, msg |-> msg, details |-> details]

\* remove() that drops the element after index i
Remove_after(s, i) == SubSeq(s, 1, i + 1) \o SubSeq(s, i + 3, Len(s))

\* Vec::remove(i), i a valid 0-based index
Remove(s, i) == SubSeq(s, 1, i) \o SubSeq(s, i + 2, Len(s))

\* the toggle written as an assignment of true
set_done(its, i) == [its EXCEPT ![i + 1].done = TRUE]

\* items[i].done = !items[i].done, i a valid 0-based index
toggle_done(its, i) == [its EXCEPT ![i + 1].done = ~@]

\* items.len() - 1 in usize: the outcomes the build profiles give
LenMinusOne(its) ==
    IF Len(its) = 0 THEN {Panic, Some(UsizeMax)} ELSE {Some(Len(its) - 1)}

\* next() with the wrap test `i > len - 1`: steps past the last index
next_overrun(its, sel) ==
    IF IsSome(sel)
    THEN { IF last = Panic THEN Panic
           ELSE IF Unwrap(sel) > Unwrap(last) THEN Some(0)
           ELSE Some(Unwrap(sel) + 1)
           : last \in LenMinusOne(its) }
    ELSE {Some(0)}

\* StateFullList::next: the set of outcomes, each a new selection or Panic
next(its, sel) ==
    IF IsSome(sel)
    THEN { IF last = Panic THEN Panic
           ELSE IF Unwrap(sel) >= Unwrap(last) THEN Some(0)
           ELSE Some(Unwrap(sel) + 1)
           : last \in LenMinusOne(its) }
    ELSE {Some(0)}

\* StateFullList::previous: the set of outcomes
previous(its, sel) ==
    IF IsSome(sel)
    THEN IF Unwrap(sel) = 0
         THEN LenMinusOne(its)
         ELSE {Some(Unwrap(sel) - 1)}
    ELSE {Some(0)}

\* the 'j' arm without its test of items.len()
key_j_unguarded(its, sel) == next(its, sel)

\* the arm KeyCode::Char('j') of Normal mode: the outcomes for the selection
key_j(its, sel) ==
    IF Len(its) > 0 THEN next(its, sel) ELSE {sel}

\* the arm KeyCode::Char('k') of Normal mode: the outcomes for the selection
key_k(its, sel) ==
    IF IsSome(sel)
    THEN IF Unwrap(sel) > 0 THEN previous(its, sel) ELSE {sel}
    ELSE IF Len(its) > 0 THEN previous(its, sel) ELSE {sel}

\* ui(): the only failure of the render step is the index items[i] of the
\* selected task
ui_panics == IsSome(selected) /\ Unwrap(selected) >= Len(items)

\* --------------------------------------------------------------- rendering
\* the mark format!() puts before the label of a done task (U+2713)
Check == "V"

\* the ListItem of task t: "V label" if done, "  label" if not
ListItem(t) == (IF t.done THEN <<Check, " ">> ELSE <<" ", " ">>) \o t.msg

\* the text of the footer
command_helper == "q: Quit | Space: Select | n: New task | d: delete | h: left | j: up | k: down | l: right | Enter: Mark done"

\* the paragraph beside the list: the details text
details_win(details) == details

\* input_popup with the two buffers exchanged
input_popup_swapped(inp, p) ==
    IF p = "NewTaskName"
    THEN [text |-> inp[2], title |-> "Add a new task"]
    ELSE [text |-> inp[1], title |-> "Add details (blank for none)"]

\* input_popup(app, popup): the text and the title of the overlay
input_popup(inp, p) ==
    IF p = "NewTaskName"
    THEN [text |-> inp[1], title |-> "Add a new task"]
    ELSE [text |-> inp[2], title |-> "Add details (blank for none)"]

\* ui(): what the frame is given to render, ~ui_panics: the list with the
\* selection it highlights, the details paragraph in the right half if the
\* selected task has details, the footer, the overlay if a popup is open
ui ==
    [ list |-> [i \in 1..Len(items) |-> ListItem(items[i])],
      state |-> selected,
      details |->
          IF IsSome(selected)
          THEN IF IsSome(items[Unwrap(selected) + 1].details)
               THEN Some(details_win(Unwrap(items[Unwrap(selected) + 1].details)))
               ELSE None
          ELSE None,
      footer |-> command_helper,
      overlay |->
          IF IsSome(popup)
          THEN Some(input_popup(input, Unwrap(popup)))
          ELSE None ]

RECURSIVE SumChars(_)
SumChars(its) ==
    IF Len(its) = 0 THEN 0
    ELSE Len(its[1].msg)
         + (IF IsSome(its[1].details) THEN Len(Unwrap(its[1].details)) ELSE 0)
         + SumChars(Tail(its))

TotalChars == Len(input[1]) + Len(input[2]) + SumChars(items)

\* ------------------------------------------------------------------ Init
\* the process enters main; the App fields have their App::new values
Init ==
    /\ popup = None
    /\ input_mode = "Normal"
    /\ input = <<EmptyString, EmptyString>>
    /\ items = <<>>
    /\ selected = None
    /\ key = NoKey
    /\ arm = "none"
    /\ res = "none"
    /\ pc = "enable_raw_mode"
    /\ raw_mode = FALSE
    /\ alt_screen = FALSE
    /\ cursor_shown = FALSE
    /\ ret = "none"
    /\ printed = "none"
    /\ frames = <<>>

\* ------------------------------------------------------------ loop steps
\* the loop is still running and the frame was drawn; the event read in
\* the arm of the current mode is the key k
Read(k) ==
    /\ res = "running"
    /\ ~ui_panics
    /\ arm' = input_mode
    /\ key' = k
    /\ UNCHANGED outer

\* run_app is left with result r: its local `app` is dropped, which the
\* model records by returning the fields to their App::new values
Return(r) ==
    /\ res' = r
    /\ popup' = None
    /\ input_mode' = "Normal"
    /\ input' = <<EmptyString, EmptyString>>
    /\ items' = <<>>
    /\ selected' = None

\* the selection becomes outcome o of next()/previous(), or the loop panics
Select(o) ==
    IF o = Panic
    THEN Return("panic")
    ELSE selected' = o /\ UNCHANGED <<popup, input_mode, input, items, res>>

\* terminal.draw(..)? returns an error, or the render step panics
DrawFails ==
    /\ res = "running"
    /\ Return(IF ui_panics THEN "panic" ELSE "Err")
    /\ key' = NoKey
    /\ arm' = "none"
    /\ UNCHANGED outer

\* event::read()? returns an error
ReadFails ==
    /\ res = "running"
    /\ ~ui_panics
    /\ Return("Err")
    /\ key' = NoKey
    /\ arm' = input_mode
    /\ UNCHANGED outer

\* --- InputMode::Normal
\* a 'q' arm that is not under the Normal arm of the mode match
Normal_q_any_mode ==
    /\ Read(Char("q"))
    /\ Return("Ok")

Normal_q ==
    /\ input_mode = "Normal"
    /\ Read(Char("q"))
    /\ Return("Ok")

Normal_n ==
    /\ input_mode = "Normal"
    /\ Read(Char("n"))
    /\ popup' = Some("NewTaskName")
    /\ input_mode' = "Editing"
    /\ UNCHANGED <<input, items, selected, res>>

Normal_j ==
    /\ input_mode = "Normal"
    /\ Read(Char("j"))
    /\ \E o \in key_j(items, selected) : Select(o)

Normal_k ==
    /\ input_mode = "Normal"
    /\ Read(Char("k"))
    /\ \E o \in key_k(items, selected) : Select(o)

\* the 'd' arm without state.select(None)
Normal_d_keeps_selection ==
    /\ input_mode = "Normal"
    /\ Read(Char("d"))
    /\ IF IsSome(selected) /\ Unwrap(selected) < Len(items)
       THEN /\ items' = Remove(items, Unwrap(selected))
            /\ UNCHANGED selected
       ELSE UNCHANGED <<items, selected>>
    /\ UNCHANGED <<popup, input_mode, input, res>>

Normal_d ==
    /\ input_mode = "Normal"
    /\ Read(Char("d"))
    /\ IF IsSome(selected) /\ Unwrap(selected) < Len(items)
       THEN /\ items' = Remove(items, Unwrap(selected))
            /\ selected' = None
       ELSE UNCHANGED <<items, selected>>
    /\ UNCHANGED <<popup, input_mode, input, res>>

Normal_Enter ==
    /\ input_mode = "Normal"
    /\ Read(Enter)
    /\ IF IsSome(selected)
       THEN IF Unwrap(selected) < Len(items)
            THEN /\ items' = toggle_done(items, Unwrap(selected))
                 /\ UNCHANGED <<popup, input_mode, input, selected, res>>
            ELSE Return("panic")
       ELSE UNCHANGED <<app, res>>

\* the arm `_ => {}` of Normal mode
Normal_other ==
    /\ input_mode = "Normal"
    /\ \E k \in {Char("a"), Esc, Backspace, Tab} : Read(k)
    /\ UNCHANGED <<app, res>>

\* --- InputMode::Editing
Editing_Char ==
    /\ input_mode = "Editing"
    /\ TotalChars < MaxChars
    /\ \E c \in Chars :
         /\ Read(Char(c))
         /\ IF IsSome(popup)
            THEN IF Unwrap(popup) = "NewTaskName"
                 THEN /\ Typable(Push(input[1], c))
                      /\ input' = [input EXCEPT ![1] = Push(@, c)]
                 ELSE /\ TypableDetails(Push(input[2], c))
                      /\ input' = [input EXCEPT ![2] = Push(@, c)]
            ELSE UNCHANGED input
    /\ UNCHANGED <<popup, input_mode, items, selected, res>>

Editing_Backspace ==
    /\ input_mode = "Editing"
    /\ Read(Backspace)
    /\ IF IsSome(popup)
       THEN IF Unwrap(popup) = "NewTaskName"
            THEN input' = [input EXCEPT ![1] = Pop(@)]
            ELSE input' = [input EXCEPT ![2] = Pop(@)]
       ELSE UNCHANGED input
    /\ UNCHANGED <<popup, input_mode, items, selected, res>>

\* Esc that also discards the last task of the list
Editing_Esc_pops_task ==
    /\ input_mode = "Editing"
    /\ Read(Esc)
    /\ input_mode' = "Normal"
    /\ popup' = None
    /\ input' = <<EmptyString, EmptyString>>
    /\ items' = Pop(items)
    /\ UNCHANGED <<selected, res>>

\* Esc that leaves the mode but keeps the popup
Editing_Esc_keeps_popup ==
    /\ input_mode = "Editing"
    /\ Read(Esc)
    /\ input_mode' = "Normal"
    /\ input' = <<EmptyString, EmptyString>>
    /\ UNCHANGED <<popup, items, selected, res>>

\* Esc that clears the name buffer only
Editing_Esc_keeps_details ==
    /\ input_mode = "Editing"
    /\ Read(Esc)
    /\ input_mode' = "Normal"
    /\ popup' = None
    /\ input' = <<EmptyString, input[2]>>
    /\ UNCHANGED <<items, selected, res>>

Editing_Esc ==
    /\ input_mode = "Editing"
    /\ Read(Esc)
    /\ input_mode' = "Normal"
    /\ popup' = None
    /\ input' = <<EmptyString, EmptyString>>
    /\ UNCHANGED <<items, selected, res>>

\* Enter in the NewTaskName phase; the test is on the Vec `input`, which
\* always holds the two buffers
Editing_Enter_Name ==
    /\ input_mode = "Editing"
    /\ IsSome(popup) /\ Unwrap(popup) = "NewTaskName"
    /\ Read(Enter)
    /\ IF Len(input) # 0
       THEN popup' = Some("NewTaskDetails")
       ELSE UNCHANGED popup
    /\ UNCHANGED <<input_mode, input, items, selected, res>>

\* the commit without the reset of the name buffer
Editing_Enter_Details_keeps_name ==
    /\ input_mode = "Editing"
    /\ IsSome(popup) /\ Unwrap(popup) = "NewTaskDetails"
    /\ Len(items) < MaxTasks
    /\ Read(Enter)
    /\ IF Len(input[2]) = 0
       THEN items' = Append(items, Task_new(input[1], None))
       ELSE items' = Append(items, Task_new(input[1], Some(input[2])))
    /\ input' = <<input[1], EmptyString>>
    /\ popup' = None
    /\ input_mode' = "Normal"
    /\ UNCHANGED <<selected, res>>

\* Enter in the NewTaskDetails phase: the commit
Editing_Enter_Details ==
    /\ input_mode = "Editing"
    /\ IsSome(popup) /\ Unwrap(popup) = "NewTaskDetails"
    /\ Len(items) < MaxTasks
    /\ Read(Enter)
    /\ IF Len(input[2]) = 0
       THEN items' = Append(items, Task_new(input[1], None))
       ELSE items' = Append(items, Task_new(input[1], Some(input[2])))
    /\ input' = <<EmptyString, EmptyString>>
    /\ popup' = None
    /\ input_mode' = "Normal"
    /\ UNCHANGED <<selected, res>>

\* the arm `_ => {}` of Editing mode
Editing_other ==
    /\ input_mode = "Editing"
    /\ Read(Tab)
    /\ UNCHANGED <<app, res>>

\* ------------------------------------------------ start_ui and main
\* a `?` of start_ui took the error: start_ui returns Err from statement pc
Bail ==
    /\ ret' = "Err"
    /\ pc' = "unwrap"

\* enable_raw_mode()?
Enable_raw_mode ==
    /\ pc = "enable_raw_mode"
    /\ \/ raw_mode' = TRUE /\ pc' = "enter_alternate_screen" /\ UNCHANGED ret
       \/ Bail /\ UNCHANGED raw_mode
    /\ UNCHANGED <<app, key, arm, res, alt_screen, cursor_shown, printed, frames>>

\* execute!(stdout, EnterAlternateScreen, EnableMouseCapture)?
Enter_alternate_screen ==
    /\ pc = "enter_alternate_screen"
    /\ \/ alt_screen' = TRUE /\ pc' = "terminal_new" /\ UNCHANGED ret
       \/ Bail /\ UNCHANGED alt_screen
    /\ UNCHANGED <<app, key, arm, res, raw_mode, cursor_shown, printed, frames>>

\* Terminal::new(backend)?, then the call of run_app, which builds App::new
Terminal_new ==
    /\ pc = "terminal_new"
    /\ \/ pc' = "run_app" /\ res' = "running" /\ UNCHANGED ret
       \/ Bail /\ UNCHANGED res
    /\ UNCHANGED <<app, key, arm, term, printed, frames>>

\* run_app has returned its result to `res`; a panic of the loop unwinds
\* through start_ui and main instead, its message written where it occurs
Run_app_returns ==
    /\ pc = "run_app"
    /\ res \in {"Ok", "Err", "panic"}
    /\ IF res = "panic"
       THEN printed' = "panic" /\ pc' = "exit"
       ELSE pc' = "disable_raw_mode" /\ UNCHANGED printed
    /\ UNCHANGED <<app, key, arm, res, term, ret, frames>>

\* disable_raw_mode()?
Disable_raw_mode ==
    /\ pc = "disable_raw_mode"
    /\ \/ raw_mode' = FALSE /\ pc' = "leave_alternate_screen" /\ UNCHANGED ret
       \/ Bail /\ UNCHANGED raw_mode
    /\ UNCHANGED <<app, key, arm, res, alt_screen, cursor_shown, printed, frames>>

\* execute!(terminal.backend_mut(), LeaveAlternateScreen, DisableMouseCapture)?
Leave_alternate_screen ==
    /\ pc = "leave_alternate_screen"
    /\ \/ alt_screen' = FALSE /\ pc' = "show_cursor" /\ UNCHANGED ret
       \/ Bail /\ UNCHANGED alt_screen
    /\ UNCHANGED <<app, key, arm, res, raw_mode, cursor_shown, printed, frames>>

\* terminal.show_cursor()?
Show_cursor ==
    /\ pc = "show_cursor"
    /\ \/ cursor_shown' = TRUE /\ pc' = "report" /\ UNCHANGED ret
       \/ Bail /\ UNCHANGED cursor_shown
    /\ UNCHANGED <<app, key, arm, res, raw_mode, alt_screen, printed, frames>>

\* if let Err(e) = res { println!("UI Crashed..") }; Ok(())
Report ==
    /\ pc = "report"
    /\ printed' = IF res = "Err" THEN "UI Crashed" ELSE printed
    /\ ret' = "Ok"
    /\ pc' = "unwrap"
    /\ UNCHANGED <<app, key, arm, res, term, frames>>

\* main: start_ui().unwrap(), which panics with the error's text on Err
Main_unwrap ==
    /\ pc = "unwrap"
    /\ printed' = IF ret = "Err" THEN "unwrap" ELSE printed
    /\ pc' = "exit"
    /\ UNCHANGED <<app, key, arm, res, term, ret, frames>>

Next ==
    \/ Enable_raw_mode
    \/ Enter_alternate_screen
    \/ Terminal_new
    \/ Run_app_returns
    \/ Disable_raw_mode
    \/ Leave_alternate_screen
    \/ Show_cursor
    \/ Report
    \/ Main_unwrap
    \/ DrawFails
    \/ ReadFails
    \/ Normal_q
    \/ Normal_n
    \/ Normal_j
    \/ Normal_k
    \/ Normal_d
    \/ Normal_Enter
    \/ Normal_other
    \/ Editing_Char
    \/ Editing_Backspace
    \/ Editing_Esc
    \/ Editing_Enter_Name
    \/ Editing_Enter_Details
    \/ Editing_other

Spec == Init /\ [][Next]_vars

\* ------------------------------------------- the render step on its own
\* most frames drawn from one state
MaxDraws == 2

\* the labels and the details of the tasks drawn (a label may be empty,
\* details that are present are not)
Labels == { EmptyString, <<"a">>, <<"q", "n">> }
Details == { None, Some(<<"k">>) }

Tasks == [done : BOOLEAN, msg : Labels, details : Details]

\* the lists of at most MaxTasks tasks
Lists == UNION { [1..n -> Tasks] : n \in 0..MaxTasks }

\* the selections the loop keeps for list its: none, or an index of its
Selections(its) == {None} \cup { Some(i) : i \in 0..(Len(its) - 1) }

\* the popup, mode and draft buffers the loop is in at the top of an
\* iteration: no popup, the name phase, the details phase
Interactions ==
    { <<None, "Normal", <<EmptyString, EmptyString>>>> }
    \cup { <<Some("NewTaskName"), "Editing", <<n, EmptyString>>>> :
              n \in {EmptyString, <<"a">>, <<"a", "b">>} }
    \cup { <<Some("NewTaskDetails"), "Editing", <<n, d>>>> :
              n \in {EmptyString, <<"a">>}, d \in {EmptyString, <<"k">>} }

\* run_app is at the top of an iteration, in any of these states
InitLoop ==
    /\ \E x \in Interactions :
          /\ popup = x[1]
          /\ input_mode = x[2]
          /\ input = x[3]
    /\ items \in Lists
    /\ selected \in Selections(items)
    /\ key = NoKey
    /\ arm = "none"
    /\ res = "running"
    /\ pc = "run_app"
    /\ raw_mode = TRUE
    /\ alt_screen = TRUE
    /\ cursor_shown = FALSE
    /\ ret = "none"
    /\ printed = "none"
    /\ frames = <<>>

\* a draw after which the list state has no selection
Draw_clears_selection ==
    /\ res = "running"
    /\ ~ui_panics
    /\ Len(frames) < MaxDraws
    /\ frames' = Append(frames, ui)
    /\ selected' = None
    /\ UNCHANGED <<popup, input_mode, input, items, key, arm, res,
                   pc, term, ret, printed>>

\* terminal.draw(|f| ui(f, &mut app)): the frame is rendered from app;
\* ui assigns to no field of app, and the list widget it hands
\* &mut app.list.state to keeps the selection
Draw ==
    /\ res = "running"
    /\ ~ui_panics
    /\ Len(frames) < MaxDraws
    /\ frames' = Append(frames, ui)
    /\ selected' = selected
    /\ UNCHANGED <<popup, input_mode, input, items, key, arm, res,
                   pc, term, ret, printed>>

NextDraw == Draw

SpecDraw == InitLoop /\ [][NextDraw]_vars

\* ------------------------------------ the list operations on their own
\* app.list.next() called whatever the list holds (on an empty list a
\* build without overflow checks counts the selection up without end: the
\* calls stop beyond MaxTasks)
Call_next ==
    /\ res = "running"
    /\ IsSome(selected) => Unwrap(selected) <= MaxTasks
    /\ \E o \in next(items, selected) : Select(o)
    /\ key' = NoKey
    /\ arm' = "none"
    /\ UNCHANGED outer

\* app.list.previous() called whatever the list holds (the calls stop
\* beyond MaxTasks, where the same build counts down from usize::MAX)
Call_previous ==
    /\ res = "running"
    /\ IsSome(selected) => Unwrap(selected) <= MaxTasks
    /\ \E o \in previous(items, selected) : Select(o)
    /\ key' = NoKey
    /\ arm' = "none"
    /\ UNCHANGED outer

NextList == Call_next \/ Call_previous

SpecList == InitLoop /\ [][NextList]_vars

TypeOK ==
    /\ popup \in {None, Some("NewTaskName"), Some("NewTaskDetails")}
    /\ input_mode \in {"Normal", "Editing"}
    /\ Len(input) = 2
    /\ Len(items) <= MaxTasks
    /\ arm \in {"none", "Normal", "Editing"}
    /\ res \in {"none", "running", "Ok", "Err", "panic"}
    /\ pc \in {"enable_raw_mode", "enter_alternate_screen", "terminal_new",
              "run_app", "disable_raw_mode", "leave_alternate_screen",
              "show_cursor", "report", "unwrap", "exit"}
    /\ raw_mode \in BOOLEAN /\ alt_screen \in BOOLEAN /\ cursor_shown \in BOOLEAN
    /\ ret \in {"none", "Ok", "Err"}
    /\ printed \in {"none", "UI Crashed", "unwrap", "panic"}
\* ------------------------------------------------------------ properties
\* this step is an iteration of the loop that read the key k
Reads(k) == res = "running" /\ key' = k

Cleared == <<EmptyString, EmptyString>>

\* C1: the selection is absent or an index i with 0 <= i < number of tasks,
\* and it is absent whenever the list is empty
C1_SelectionValid ==
    \/ selected = None
    \/ /\ IsSome(selected)
       /\ 0 <= Unwrap(selected)
       /\ Unwrap(selected) < Len(items)

\* the selection sits on the last of several tasks after 'j'
C1_Witness ==
    /\ key = Char("j")
    /\ Len(items) >= 2
    /\ selected = Some(Len(items) - 1)

\* C2: the input mode is Editing if and only if a popup is active
C2_ModeIffPopup == (input_mode = "Editing") <=> (popup # None)

\* the second wizard phase, entered by Enter
C2_Witness ==
    /\ key = Enter
    /\ input_mode = "Editing"
    /\ popup = Some("NewTaskDetails")

\* C3: Enter in the NewTaskName phase advances to NewTaskDetails only if the
\* name buffer is non-empty; with an empty name buffer it changes nothing
C3_ConfirmNeedsName ==
    [][ (input_mode = "Editing" /\ popup = Some("NewTaskName") /\ Reads(Enter))
        => IF input[1] = EmptyString
           THEN UNCHANGED app /\ res' = "running"
           ELSE popup' = Some("NewTaskDetails") ]_vars

\* C4: every task in the list has a non-empty label
C4_LabelsNonEmpty ==
    \A i \in 1..Len(items) : items[i].msg # EmptyString

\* C5: Enter in the NewTaskDetails phase appends exactly one task (done
\* false, label the name buffer, details absent for an empty details buffer
\* and the details buffer otherwise), returns to Normal/None with both
\* buffers empty, and leaves the earlier tasks and the selection unchanged
C5_Commit ==
    [][ (input_mode = "Editing" /\ popup = Some("NewTaskDetails") /\ Reads(Enter))
        => /\ items' = Append(items,
                  [done |-> FALSE,
                   msg |-> input[1],
                   details |-> IF input[2] = EmptyString
                               THEN None ELSE Some(input[2])])
           /\ input_mode' = "Normal"
           /\ popup' = None
           /\ input' = Cleared
           /\ selected' = selected
           /\ res' = "running" ]_vars

\* the list after the keys n, a, b, c, Enter, Enter
C5_Witness ==
    /\ arm = "Editing"
    /\ key = Enter
    /\ input_mode = "Normal"
    /\ popup = None
    /\ input = Cleared
    /\ items = << [done |-> FALSE, msg |-> <<"a", "b", "c">>, details |-> None] >>

\* C6: Esc in either wizard phase leads in one step to Normal/None with both
\* buffers empty and leaves the task list and the selection unchanged
C6_Cancel ==
    [][ (input_mode = "Editing" /\ Reads(Esc))
        => /\ input_mode' = "Normal"
           /\ popup' = None
           /\ input' = Cleared
           /\ UNCHANGED <<items, selected>>
           /\ res' = "running" ]_vars

\* a wizard cancelled over a list that holds a selected task
C6_Witness ==
    /\ arm = "Editing"
    /\ key = Esc
    /\ input_mode = "Normal"
    /\ Len(items) >= 1
    /\ IsSome(selected)

\* C7: in Normal mode both draft buffers are empty, so every 'n' enters
\* Editing/NewTaskName with both buffers empty
C7_NoStaleInput ==
    /\ [](input_mode = "Normal" => input = Cleared)
    /\ [][ (input_mode = "Normal" /\ Reads(Char("n")))
           => /\ input_mode' = "Editing"
              /\ popup' = Some("NewTaskName")
              /\ input' = Cleared ]_vars

\* the wizard is entered again after an earlier one was committed
C7_Witness ==
    /\ arm = "Normal"
    /\ key = Char("n")
    /\ popup = Some("NewTaskName")
    /\ input = Cleared
    /\ Len(items) >= 1

\* C8: on a list of length N >= 1, 'j' moves the selection from N-1 to 0,
\* from absent to 0 and otherwise from i to i+1, and 'k' moves it from 0 to
\* N-1 and otherwise from i to i-1
C8_MovementWraps ==
    [][ (input_mode = "Normal" /\ Len(items) >= 1)
        => /\ Reads(Char("j")) =>
                selected' = IF selected = None THEN Some(0)
                            ELSE IF Unwrap(selected) = Len(items) - 1 THEN Some(0)
                            ELSE Some(Unwrap(selected) + 1)
           /\ (Reads(Char("k")) /\ IsSome(selected)) =>
                selected' = IF Unwrap(selected) = 0 THEN Some(Len(items) - 1)
                            ELSE Some(Unwrap(selected) - 1) ]_vars

\* C9: with a valid selection i on a list of length >= 1, 'j' then 'k'
\* returns the selection to i, and so does 'k' then 'j'
C9_MovesAreInverse ==
    (res = "running" /\ input_mode = "Normal"
        /\ Len(items) >= 1 /\ IsSome(selected))
    => /\ \A a \in key_j(items, selected) :
            \A b \in key_k(items, a) : b = selected
       /\ \A a \in key_k(items, selected) :
            \A b \in key_j(items, a) : b = selected

\* C10: in Normal mode with an empty list, 'j' and 'k' select nothing, do
\* not panic and leave the whole state unchanged
C10_EmptyListMoves ==
    [][ (input_mode = "Normal" /\ Len(items) = 0
            /\ (Reads(Char("j")) \/ Reads(Char("k"))))
        => /\ selected' = None
           /\ UNCHANGED app
           /\ res' = "running" ]_vars

\* 'k' was read over the empty list
C10_Witness ==
    /\ arm = "Normal"
    /\ key = Char("k")
    /\ res = "running"
    /\ Len(items) = 0
    /\ selected = None

\* C13: once the loop has exited by quit or by a draw/read error, every
\* exit of start_ui (every path to the end of main) has performed all three
\* restoration steps: raw mode disabled, alternate screen left, cursor shown
C13_RestoredOnEveryExit ==
    (pc = "exit" /\ res \in {"Ok", "Err"})
    => (~raw_mode /\ ~alt_screen /\ cursor_shown)

\* C14: a diagnostic is on the terminal only when the alternate screen has
\* been left and raw mode disabled
C14_DiagnosticAfterRestore ==
    printed # "none" => (~raw_mode /\ ~alt_screen)

C12_Toggle ==
    /\ []((res = "running" /\ IsSome(selected))
            => toggle_done(toggle_done(items, Unwrap(selected)),
                           Unwrap(selected)) = items)
    /\ [][ (input_mode = "Normal" /\ Reads(Enter))
           => IF IsSome(selected)
              THEN /\ Len(items') = Len(items)
                   /\ \A j \in 1..Len(items) :
                        /\ items'[j].msg = items[j].msg
                        /\ items'[j].details = items[j].details
                        /\ items'[j].done = IF j = Unwrap(selected) + 1
                                            THEN ~items[j].done
                                            ELSE items[j].done
                   /\ UNCHANGED <<popup, input_mode, input, selected>>
                   /\ res' = "running"
              ELSE UNCHANGED app /\ res' = "running" ]_vars

\* the selected one of two tasks was toggled, the other was not
C12_Witness ==
    /\ arm = "Normal"
    /\ key = Enter
    /\ Len(items) = 2
    /\ selected = Some(1)
    /\ items[2].done
    /\ ~items[1].done

\* C16: while the loop runs the list grows only by the task a commit
\* appends, shrinks only by 'd' on the selected task in Normal mode, a done
\* flag changes only by Enter on the selected task in Normal mode, and no
\* label or details of an existing task changes; every other key leaves the
\* list unchanged
C16_OnlyCommitToggleDelete ==
    [][ (res = "running" /\ res' = "running")
        => \/ items' = items
           \/ /\ input_mode = "Editing"
              /\ popup = Some("NewTaskDetails")
              /\ key' = Enter
              /\ Len(items') = Len(items) + 1
              /\ SubSeq(items', 1, Len(items)) = items
           \/ /\ input_mode = "Normal"
              /\ key' = Char("d")
              /\ IsSome(selected)
              /\ Len(items') = Len(items) - 1
              /\ \A j \in 1..Len(items') :
                   items'[j] = IF j <= Unwrap(selected)
                               THEN items[j] ELSE items[j + 1]
           \/ /\ input_mode = "Normal"
              /\ key' = Enter
              /\ IsSome(selected)
              /\ Len(items') = Len(items)
              /\ \A j \in 1..Len(items) :
                   /\ items'[j].msg = items[j].msg
                   /\ items'[j].details = items[j].details
                   /\ items'[j].done # items[j].done => j = Unwrap(selected) + 1 ]_vars

\* after a commit, a toggle and a delete, 'd' typed in the wizard is text
C16_Witness ==
    /\ arm = "Editing"
    /\ key = Char("d")
    /\ res = "running"
    /\ selected = None
    /\ Len(items) = 1
    /\ items[1].done

\* C17: the loop and the render step never panic: while the loop runs the
\* selected index is in range for ui() and for the toggle, and the 'j' and
\* 'k' arms reach no underflow of items.len() - 1
C17_NoPanic ==
    /\ res # "panic"
    /\ printed # "panic"
    /\ res = "running"
       => /\ ~ui_panics
          /\ IsSome(selected) => Unwrap(selected) < Len(items)
          /\ Panic \notin key_j(items, selected)
          /\ Some(UsizeMax) \notin key_j(items, selected)
          /\ Panic \notin key_k(items, selected)
          /\ Some(UsizeMax) \notin key_k(items, selected)

\* 'k' was read with several tasks and the selection is at index 0
C17_Witness ==
    /\ arm = "Normal"
    /\ key = Char("k")
    /\ res = "running"
    /\ Len(items) >= 2
    /\ selected = Some(0)

\* C20: the loop ends only by 'q' read in Normal mode or by a failed draw or
\* event read; in Editing mode q, n, j, k and d are appended to the buffer
\* of the active phase and change nothing else, so 'q' never ends the loop
\* while a popup is open
CommandLetters == {"q", "n", "j", "k", "d"}

C20_QuitOnlyInNormal ==
    /\ [][ (res = "running" /\ res' # "running")
           => \/ res' = "Ok" /\ input_mode = "Normal" /\ popup = None
                 /\ key' = Char("q")
              \/ res' = "Err" /\ key' = NoKey ]_vars
    /\ [][ \A c \in CommandLetters :
             (input_mode = "Editing" /\ Reads(Char(c)))
             => /\ res' = "running"
                /\ UNCHANGED <<input_mode, popup, items, selected>>
                /\ input' = IF popup = Some("NewTaskName")
                            THEN <<Push(input[1], c), input[2]>>
                            ELSE <<input[1], Push(input[2], c)>> ]_vars

C18_RenderDirectives ==
    \A n \in DOMAIN frames :
        /\ IsSome(frames[n].details)
               <=> (/\ IsSome(selected)
                    /\ IsSome(items[Unwrap(selected) + 1].details))
        /\ IsSome(frames[n].overlay) <=> popup # None
        /\ popup = Some("NewTaskName")
               => /\ Unwrap(frames[n].overlay).text = input[1]
                  /\ Unwrap(frames[n].overlay).title = "Add a new task"
        /\ popup = Some("NewTaskDetails")
               => /\ Unwrap(frames[n].overlay).text = input[2]
                  /\ Unwrap(frames[n].overlay).title
                         = "Add details (blank for none)"

\* a frame with the details pane and the overlay of the details phase, the
\* two buffers holding different texts
C18_Witness ==
    /\ Len(frames) >= 1
    /\ IsSome(frames[1].details)
    /\ popup = Some("NewTaskDetails")
    /\ input[1] = <<"a">>
    /\ input[2] = <<"k">>

\* C19: next() and previous() called on an empty list leave the selection
\* as it was and do not fail.
C19_FailSoftOnEmpty ==
    [][ (Len(items) = 0 /\ res = "running")
        => (selected' = selected /\ res' = "running") ]_vars

\* 'q' typed as the first character of a name, over a list with a task
C20_Witness ==
    /\ arm = "Editing"
    /\ key = Char("q")
    /\ res = "running"
    /\ input_mode = "Editing"
    /\ popup = Some("NewTaskName")
    /\ input[1] = <<"q">>
    /\ Len(items) >= 1
====
